---- MODULE Spec2Model ----
(***************************************************************************)
(* A model of the Koka C runtime header cruntime/include/runtime.h: heap   *)
(* block headers, the inline reference-count operations dup_block and      *)
(* drop_block, orphan reuse (block_release0/1, block_alloc_reuse,          *)
(* block_no_reuse), large blocks, and the per-thread marker counter.       *)
(*                                                                         *)
(* Functions that runtime.h only declares (dup_block_check,                *)
(* block_check_free, block_free) or takes from runtime/box.h (unbox_enum,  *)
(* box_ptr, drop_boxed) are modelled from the header's comments and the    *)
(* design text; they are marked where they are defined.                    *)
(***************************************************************************)
EXTENDS Integers, Sequences, FiniteSets, TLC

\* ------------------------------------------------------------------ bounds
\* Heap addresses 1..NBlocks can be handed out by runtime_malloc.
NBlocks == 2
\* The mutator holds at most this many references to one block at a time.
MaxHeld == 2
\* Threads of the concurrent specification.
NThreads == 2
\* Operations each thread of the concurrent specification issues.
MaxThreadOps == 2
\* Calls of marker_unique (single calls and runs of calls) in one behaviour.
MaxMarkerCalls == 8
\* Calls of gen_unique in one behaviour (the counter runs from 0 to this).
MaxUnique == 4
\* Frames between a handler and the operation performed beneath it.
MaxDepth == 14
\* References to vector_empty handed out by vector_alloc(0) at a time.
MaxEmpty == 2
\* Operations issued on the contexts of the worker threads, all together.
MaxCtxOps == 4

\* ------------------------------------------------- uint32_t and int32_t
\* A uint32_t is kept as its two 16-bit halves, so that every 32-bit
\* pattern is representable and arithmetic is exactly modulo 2^32.
Half == 2^16

U32(hi, lo) == [hi |-> hi, lo |-> lo]

\* The uint32_t of a small natural number (n < 2^31).
U32Of(n) == U32(n \div Half, n % Half)

\* rc+1 on a uint32_t (wraps from 0xFFFFFFFF to 0).
U32Inc(x) ==
  IF x.lo = Half - 1 THEN U32((x.hi + 1) % Half, 0) ELSE U32(x.hi, x.lo + 1)

\* rc-1 on a uint32_t (wraps from 0 to 0xFFFFFFFF).
U32Dec(x) ==
  IF x.lo = 0 THEN U32((x.hi + Half - 1) % Half, Half - 1)
  ELSE U32(x.hi, x.lo - 1)

\* The cast (int32_t)rc, two's complement.
ToInt32(x) ==
  IF x.hi >= Half \div 2 THEN (x.hi - Half) * Half + x.lo
  ELSE x.hi * Half + x.lo

\* Unsigned comparison x >= y.
U32Ge(x, y) == x.hi > y.hi \/ (x.hi = y.hi /\ x.lo >= y.lo)

U32Zero == U32(0, 0)

\* x + d modulo 2^32, for an integer d with |d| < 2^16.
U32Plus(x, d) ==
  LET l == x.lo + d IN
  IF l < 0 THEN U32((x.hi + Half - 1) % Half, l + Half)
  ELSE IF l >= Half THEN U32((x.hi + 1) % Half, l - Half)
  ELSE U32(x.hi, l)

\* -------------------------------------------------------------------- tags
TAG_INVALID == 0
TAG_MIN == 1
TAG_REF == 65003
TAG_VECTOR_SMALL == 65009
TAG_VECTOR == 65010

SCAN_FSIZE_MAX == 255

\* Counts from 0x80000000 read negative as int32_t: thread-shared.
RC_SHARED == U32(32768, 0)
\* Counts above 0xC0000000 are sticky.
RC_STICKY == U32(49152, 1)

rc_is_sticky(rc) == U32Ge(rc, RC_STICKY)

\* ------------------------------------------------------------------- boxes
\* box_enum(u) = (u << 2) | 0x03
box_enum(u) == u * 4 + 3

\* unbox_enum(v) = v >> 2
unbox_enum(v) == v \div 4

\* A pointer boxes as itself; block a lives at the 8-aligned word 8*a.
box_ptr(a) == a * 8

unbox_ptr(v) == v \div 8

\* The two-bit test: a word with both low bits clear is a pointer.
is_ptr(v) == v % 4 = 0

\* Payload that malloc returned and nobody wrote yet.
Uninit == -1

\* ------------------------------------------------------------------ blocks
Addr == 0..NBlocks

\* Address of the static _orphan_null.
orphan_null == 0

\* No orphan held / no address.
NoAddr == -1

\* header_t header = { 0 }; header.tag = (uint16_t)tag;
\* header.scan_fsize = (uint8_t)scan_fsize;
InitHeader(scan_fsize, tag) ==
  [refcount |-> U32Zero, tag |-> tag % 2^16,
   scan_fsize |-> scan_fsize % 2^8, thread_shared |-> 0]

\* memset(&b->header, 0, sizeof(header_t))
ZeroHeader ==
  [refcount |-> U32Zero, tag |-> 0, scan_fsize |-> 0, thread_shared |-> 0]

\* HEADER_STATIC(scan_fsize, tag)
HEADER_STATIC(scan_fsize, tag) ==
  [refcount |-> U32(0, 65280), tag |-> tag, scan_fsize |-> scan_fsize,
   thread_shared |-> 0]

\* Storage the allocator owns (never allocated, or returned by free).
FreeBlock ==
  [st |-> "free", header |-> ZeroHeader, large_scan_fsize |-> Uninit,
   field |-> Uninit]

block_tag(blk) == blk.header.tag

block_scan_fsize(blk) ==
  IF blk.header.scan_fsize # SCAN_FSIZE_MAX THEN blk.header.scan_fsize
  ELSE unbox_enum(blk.large_scan_fsize)

block_refcount(blk) == blk.header.refcount

block_is_unique(blk) == blk.header.refcount = U32Zero

VARIABLES
  heap,      \* Addr -> block: st, header, large_scan_fsize, first field
  held,      \* Addr -> number of references the mutator owns
  fresh,     \* addresses whose block was created in this behaviour
  orph,      \* the orphan the mutator holds and has not consumed yet
  last,      \* the last operation: name, block, block before, result
  prev,      \* the dup or drop of the same block just before the last one
  tpc,       \* thread -> where it is in dup_block or drop_block
  trc,       \* thread -> the rc it loaded
  town,      \* thread -> number of references it owns
  tops,      \* thread -> operations it has completed
  ndup,      \* dup_block calls completed by all threads
  ndrop,     \* drop_block calls completed by all threads
  rc0,       \* the count the shared block started with
  marker_ctr,  \* ctx->marker_unique
  mk_first,    \* the marker the first recorded call returned
  mk_ret,      \* the marker the last recorded call returned
  mk_n,        \* recorded calls so far: 0, 1, or 2 for two or more
  mk_calls,    \* steps taken (single calls and runs of calls)
  mk_trap,     \* the process was stopped by an overflow trap
  unique,      \* ctx->unique: the integer the next gen_unique returns
  ints,        \* integer value -> count of its bigint block, or NoBlock
  uq_held,     \* integers gen_unique returned that the caller still owns
  uq_last,     \* the last gen_unique call: counter before, value returned
  ctx_yielding,  \* ctx->yielding: YIELD_NONE, YIELD_NORMAL or YIELD_FINAL
  yield,         \* ctx->yield: marker, clause, conts_count, conts
  stack,         \* the frames of the call chain, outermost first
  yphase,        \* running, unwinding, handled, resumed or finished
  effects,       \* frame -> times its side effect after the call ran
  appended,      \* frames whose resumption closure was appended, in order
  ncompose,      \* times the pending continuations were composed
  clause_calls,  \* times an operation clause was invoked
  clause_frame,  \* the frame that invoked the clause
  kont,          \* the continuation handed to the clause
  ytarget,       \* the marker the operation yields to
  ydepth,        \* frames between the operation and its handler
  ykind,         \* the yield the operation made: none, normal or final
  yx,            \* the value the continuation was resumed with
  result,        \* what the continuation returned
  asserts,     \* the build checks assert_internal
  aborted,     \* a failed assertion has stopped the process
  vheap,       \* vector_empty (address 0) and the vector allocated last
  vwords,      \* the two words behind the header of the allocated vector
  vlast,       \* the last vector operation and what it returned
  contexts,    \* thread -> its context_t
  cx_ints,     \* thread -> the bigint blocks of its heap (as ints)
  cx_ops,      \* operations issued on the contexts so far
  cx_trap,     \* the process was stopped by an overflow trap
  cx_last      \* the last operation: its name, its context, all contexts before

hvars == <<heap, held, fresh, orph, last, prev>>
tvars == <<tpc, trc, town, tops, ndup, ndrop, rc0>>
mvars == <<marker_ctr, mk_first, mk_ret, mk_n, mk_calls, mk_trap>>
uvars == <<unique, ints, uq_held, uq_last>>
yvars == <<ctx_yielding, yield, stack, yphase, effects, appended, ncompose,
           clause_calls, clause_frame, kont, ytarget, ydepth, ykind, yx,
           result>>
avars == <<asserts, aborted>>
vvars == <<vheap, vwords, vlast>>
cvars == <<contexts, cx_ints, cx_ops, cx_trap, cx_last>>
xvars == <<uvars, yvars, avars, vvars, cvars>>
vars == <<hvars, tvars, mvars, xvars>>

\* ------------------------------------------------------------- allocation
\* runtime_malloc: address a leaves the allocator; its bytes are unwritten.
runtime_malloc(h, a) == [h EXCEPT ![a] = [FreeBlock EXCEPT !.st = "live"]]

\* runtime_free: the storage returns to the allocator.
runtime_free(h, a) == [h EXCEPT ![a] = FreeBlock]

block_init(h, b, scan_fsize, tag) ==
  [h EXCEPT ![b].header = InitHeader(scan_fsize, tag), ![b].st = "live"]

\* A block_large_init that writes the count into the 8-bit header field.
block_large_init_trunc(h, b, scan_fsize, tag) ==
  [h EXCEPT ![b].header = InitHeader(scan_fsize, tag),
            ![b].large_scan_fsize = box_enum(scan_fsize),
            ![b].st = "live"]

block_large_init(h, b, scan_fsize, tag) ==
  [h EXCEPT ![b].header = InitHeader(SCAN_FSIZE_MAX, tag),
            ![b].large_scan_fsize = box_enum(scan_fsize),
            ![b].st = "live"]

\* block_alloc, with a the address runtime_malloc returns.
block_alloc(h, a, scan_fsize, tag) ==
  block_init(runtime_malloc(h, a), a, scan_fsize, tag)

block_large_alloc(h, a, scan_fsize, tag) ==
  block_large_init(runtime_malloc(h, a), a, scan_fsize, tag)

\* ------------------------------------------------------- reference counts
\* The slow path of dup: an atomic increment, except on a sticky count.
dup_block_check(h, b) ==
  LET rc == h[b].header.refcount IN
  IF rc_is_sticky(rc) THEN h
  ELSE [h EXCEPT ![b].header.refcount = U32Inc(rc)]

\* A dup_block that computes rc+1 and does not store it.
dup_block_nostore(h, b) == h

\* A dup_block that takes the inline path whatever the count is.
dup_block_nocheck(h, b) ==
  [h EXCEPT ![b].header.refcount = U32Inc(h[b].header.refcount)]

\* A dup_block without the sign test: it always stores rc+1.
dup_block_rc_inline(h, b, rc) ==
  [h EXCEPT ![b].header.refcount = U32Inc(rc)]

\* dup_block after it has loaded rc: the sign test, then the slow path or
\* the plain store of rc+1.
dup_block_rc(h, b, rc) ==
  IF ToInt32(rc) < 0 THEN dup_block_check(h, b)
  ELSE [h EXCEPT ![b].header.refcount = U32Inc(rc)]

dup_block(h, b) == dup_block_rc(h, b, h[b].header.refcount)

RECURSIVE drop_block(_, _)
RECURSIVE block_check_free(_, _)
RECURSIVE block_free(_, _)
RECURSIVE drop_boxed(_, _)

\* A direct value needs no reference-count work; a pointer is dropped.
drop_boxed(h, v) == IF is_ptr(v) THEN drop_block(h, unbox_ptr(v)) ELSE h

\* Drop the first block_scan_fsize fields (the model keeps the first one;
\* the others hold direct values), then return the storage.
block_free(h, b) ==
  LET h1 == IF block_scan_fsize(h[b]) >= 1 THEN drop_boxed(h, h[b].field)
            ELSE h
  IN  runtime_free(h1, b)

\* The slow path of drop: free a unique block, leave a sticky count alone,
\* decrement a thread-shared count atomically.
block_check_free(h, b) ==
  LET rc == h[b].header.refcount IN
  IF rc = U32Zero THEN block_free(h, b)
  ELSE IF rc_is_sticky(rc) THEN h
  ELSE [h EXCEPT ![b].header.refcount = U32Dec(rc)]

\* A drop_block that decrements inline whenever the count is not zero.
drop_block_nosign(h, b) ==
  LET rc == h[b].header.refcount IN
  IF rc = U32Zero THEN block_check_free(h, b)
  ELSE [h EXCEPT ![b].header.refcount = U32Dec(rc)]

\* A drop_block that tests rc < 0 instead of rc <= 0.
drop_block_nofree(h, b) ==
  LET rc == h[b].header.refcount IN
  IF ToInt32(rc) < 0 THEN block_check_free(h, b)
  ELSE [h EXCEPT ![b].header.refcount = U32Dec(rc)]

\* drop_block after it has loaded rc: the sign test, then the slow path or
\* the plain store of rc-1.
drop_block_rc(h, b, rc) ==
  IF ToInt32(rc) <= 0 THEN block_check_free(h, b)
  ELSE [h EXCEPT ![b].header.refcount = U32Dec(rc)]

drop_block(h, b) == drop_block_rc(h, b, h[b].header.refcount)

\* ------------------------------------------------------------ orphan reuse
\* The header is zeroed. The references the payload held have been dropped
\* or taken over by the caller, so what the payload holds is indeterminate.
orphan_block(h, b) ==
  [h EXCEPT ![b].header = ZeroHeader, ![b].st = "orphan",
            ![b].field = Uninit, ![b].large_scan_fsize = Uninit]

\* A block_release0 that hands the block out as an orphan without testing
\* that it is unique.
block_release0_always(h, b) == [heap |-> orphan_block(h, b), ret |-> b]

block_release0(h, b) ==
  IF block_is_unique(h[b])
  THEN [heap |-> orphan_block(h, b), ret |-> b]
  ELSE [heap |-> drop_block(h, b), ret |-> orphan_null]

\* A block_release1 that forgets the unused field.
block_release1_leak(h, b, unused_field1) ==
  IF block_is_unique(h[b])
  THEN [heap |-> orphan_block(h, b), ret |-> b]
  ELSE [heap |-> drop_block(h, b), ret |-> orphan_null]

block_release1(h, b, unused_field1) ==
  IF block_is_unique(h[b])
  THEN [heap |-> orphan_block(drop_boxed(h, unused_field1), b), ret |-> b]
  ELSE [heap |-> drop_block(h, b), ret |-> orphan_null]

\* A block_no_reuse without the test for the empty orphan.
block_no_reuse_nocheck(h, o) == runtime_free(h, o)

block_no_reuse(h, o) == IF o # orphan_null THEN runtime_free(h, o) ELSE h

\* A block_alloc_reuse that always takes fresh storage.
block_alloc_reuse_fresh(h, o, a, scan_fsize, tag) ==
  [heap |-> block_init(runtime_malloc(h, a), a, scan_fsize, tag), ret |-> a]

\* block_alloc_reuse, with a the address runtime_malloc would return.
block_alloc_reuse(h, o, a, scan_fsize, tag) ==
  LET b == IF o # orphan_null THEN o ELSE a
      h1 == IF o # orphan_null THEN h ELSE runtime_malloc(h, a)
  IN  [heap |-> block_init(h1, b, scan_fsize, tag), ret |-> b]

\* ref_alloc, with a the address runtime_malloc returns.
ref_alloc(h, a, value) ==
  [block_alloc(h, a, 1, TAG_REF) EXCEPT ![a].field = value]

\* ------------------------------------------------- the sequential mutator
\* Counts a block that existed before the behaviour starts may carry:
\* unique, shared, the largest count that reads non-negative, thread-shared,
\* the last count below the sticky range, sticky, and the largest count.
InitCounts ==
  {U32Zero, U32Of(1), U32(32767, 65535), RC_SHARED, U32(32768, 1),
   U32(49152, 0), RC_STICKY, U32(65535, 65535)}

\* The <<scan_fsize, tag>> arguments the mutator allocates and reuses with.
AllocShapes == {<<0, TAG_MIN>>, <<254, TAG_VECTOR_SMALL>>}

NoOp ==
  [op |-> "none", b |-> NoAddr, pre |-> FreeBlock, ret |-> NoAddr,
   f |-> NoAddr, fpre |-> FreeBlock, scan |-> 0, tag |-> 0, used |-> 0]

\* Addresses that are not with the allocator (the static orphan included).
Used(h) == Cardinality({a \in Addr : h[a].st # "free"})

\* The record of an operation on block b (NoAddr: none) that returns ret,
\* with f the block its field argument points to (NoAddr: none), both as
\* they were before the operation.
Op(op, b, ret, f, scan, tag) ==
  [op |-> op, b |-> b,
   pre |-> IF b = NoAddr THEN FreeBlock ELSE heap[b],
   ret |-> ret, f |-> f,
   fpre |-> IF f = NoAddr THEN FreeBlock ELSE heap[f],
   scan |-> scan, tag |-> tag, used |-> Used(heap)]

\* The block a boxed field points to, or NoAddr for a direct value.
Target(v) == IF is_ptr(v) THEN unbox_ptr(v) ELSE NoAddr

Live(b) == heap[b].st = "live"
IsFree(a) == a # orphan_null /\ heap[a].st = "free"

\* The allocator is first-fit: malloc returns the lowest free address.
MallocReturns(a) == IsFree(a) /\ \A c \in Addr : IsFree(c) => a <= c

\* The last operation, if it was a dup or drop of block b; else nothing.
Before(b) ==
  IF last.b = b /\ last.op \in {"dup_block", "drop_block"} THEN last
  ELSE NoOp

\* The scanned field of b has been written (or b has none).
ScanWritten(b) ==
  block_scan_fsize(heap[b]) = 0 \/ heap[b].field # Uninit

\* References to block b stored in fields of live blocks.
Incoming(b) ==
  Cardinality({c \in Addr : /\ heap[c].st = "live"
                            /\ block_scan_fsize(heap[c]) >= 1
                            /\ heap[c].field = box_ptr(b)})

\* Owners of block b: the mutator's references and the fields pointing to it.
Owners(b) == held[b] + Incoming(b)

IdleH ==
  /\ heap = [a \in Addr |->
       IF a = orphan_null
       THEN [FreeBlock EXCEPT !.st = "static",
                              !.header = HEADER_STATIC(0, TAG_INVALID)]
       ELSE FreeBlock]
  /\ held = [a \in Addr |-> 0]
  /\ fresh = {}
  /\ orph = NoAddr
  /\ last = NoOp
  /\ prev = NoOp

\* Block 1 exists already, with a count drawn from InitCounts; the mutator
\* owns one reference to it (its other owners, if any, are elsewhere).
InitH ==
  /\ \E c \in InitCounts :
       /\ heap = [a \in Addr |->
            IF a = orphan_null
            THEN [FreeBlock EXCEPT !.st = "static",
                                   !.header = HEADER_STATIC(0, TAG_INVALID)]
            ELSE IF a = 1
            THEN [st |-> "live",
                  header |-> [refcount |-> c, tag |-> TAG_MIN,
                              scan_fsize |-> 0,
                              thread_shared |->
                                IF ToInt32(c) < 0 THEN 1 ELSE 0],
                  large_scan_fsize |-> Uninit, field |-> Uninit]
            ELSE FreeBlock]
       /\ held = [a \in Addr |-> IF a = 1 THEN 1 ELSE 0]
  /\ fresh = {}
  /\ orph = NoAddr
  /\ last = NoOp
  /\ prev = NoOp

call_block_alloc(scan_fsize, tag) ==
  \E a \in Addr :
    /\ MallocReturns(a)
    /\ heap' = block_alloc(heap, a, scan_fsize, tag)
    /\ held' = [held EXCEPT ![a] = 1]
    /\ fresh' = fresh \cup {a}
    /\ prev' = NoOp
    /\ last' = Op("block_alloc", NoAddr, a, NoAddr, scan_fsize, tag)
    /\ UNCHANGED <<orph, tvars, mvars, xvars>>

call_block_large_alloc(scan_fsize, tag) ==
  \E a \in Addr :
    /\ MallocReturns(a)
    /\ heap' = block_large_alloc(heap, a, scan_fsize, tag)
    /\ held' = [held EXCEPT ![a] = 1]
    /\ fresh' = fresh \cup {a}
    /\ prev' = NoOp
    /\ last' = Op("block_large_alloc", NoAddr, a, NoAddr, scan_fsize, tag)
    /\ UNCHANGED <<orph, tvars, mvars, xvars>>

\* ref_alloc(value): value is a direct value, or a reference the mutator
\* owns and gives to the new cell.
call_ref_alloc(c) ==
  \E a \in Addr :
    /\ MallocReturns(a)
    /\ c # NoAddr => (Live(c) /\ held[c] >= 1)
    /\ heap' = ref_alloc(heap, a,
                         IF c = NoAddr THEN box_enum(0) ELSE box_ptr(c))
    /\ held' = [x \in Addr |->
         IF x = a THEN 1 ELSE IF x = c THEN held[x] - 1 ELSE held[x]]
    /\ fresh' = fresh \cup {a}
    /\ prev' = NoOp
    /\ last' = Op("ref_alloc", NoAddr, a, c, 1, TAG_REF)
    /\ UNCHANGED <<orph, tvars, mvars, xvars>>

call_dup_block(b) ==
  /\ Live(b)
  /\ held[b] >= 1
  /\ held[b] < MaxHeld
  /\ heap' = dup_block(heap, b)
  /\ held' = [held EXCEPT ![b] = held[b] + 1]
  /\ prev' = Before(b)
  /\ last' = Op("dup_block", b, b, NoAddr, 0, 0)
  /\ UNCHANGED <<fresh, orph, tvars, mvars, xvars>>

call_drop_block(b) ==
  /\ Live(b)
  /\ held[b] >= 1
  /\ ScanWritten(b)
  /\ heap' = drop_block(heap, b)
  /\ held' = [held EXCEPT ![b] = held[b] - 1]
  /\ prev' = Before(b)
  /\ last' = Op("drop_block", b, NoAddr, NoAddr, 0, 0)
  /\ UNCHANGED <<fresh, orph, tvars, mvars, xvars>>

\* When the block is unique the mutator takes over the reference its field
\* held (the field is in use); the orphan is all that is left of the block.
call_block_release0(b) ==
  LET r == block_release0(heap, b)
      c == IF block_scan_fsize(heap[b]) >= 1 THEN Target(heap[b].field)
           ELSE NoAddr
  IN  /\ Live(b)
      /\ held[b] >= 1
      /\ orph = NoAddr
      /\ heap' = r.heap
      /\ held' = [x \in Addr |->
           IF x = b THEN held[x] - 1
           ELSE IF x = c /\ r.ret # orphan_null THEN held[x] + 1
           ELSE held[x]]
      /\ orph' = r.ret
      /\ prev' = NoOp
      /\ last' = Op("block_release0", b, r.ret, c, 0, 0)
      /\ UNCHANGED <<fresh, tvars, mvars, xvars>>

\* The unused field passed is the block's own first field.
call_block_release1(b) ==
  LET r == block_release1(heap, b, heap[b].field) IN
  /\ Live(b)
  /\ held[b] >= 1
  /\ orph = NoAddr
  /\ block_scan_fsize(heap[b]) >= 1
  /\ heap[b].field # Uninit
  /\ heap' = r.heap
  /\ held' = [held EXCEPT ![b] = held[b] - 1]
  /\ orph' = r.ret
  /\ prev' = NoOp
  /\ last' = Op("block_release1", b, r.ret, Target(heap[b].field), 0, 0)
  /\ UNCHANGED <<fresh, tvars, mvars, xvars>>

call_block_no_reuse ==
  /\ orph # NoAddr
  /\ heap' = block_no_reuse(heap, orph)
  /\ orph' = NoAddr
  /\ prev' = NoOp
  /\ last' = Op("block_no_reuse", orph, NoAddr, NoAddr, 0, 0)
  /\ UNCHANGED <<held, fresh, tvars, mvars, xvars>>

\* a is the address runtime_malloc returns if it is called.
call_block_alloc_reuse(scan_fsize, tag) ==
  \E a \in Addr :
    LET r == block_alloc_reuse(heap, orph, a, scan_fsize, tag) IN
    /\ orph # NoAddr
    /\ MallocReturns(a)
    /\ heap' = r.heap
    /\ held' = [held EXCEPT ![r.ret] = 1]
    /\ fresh' = fresh \cup {r.ret}
    /\ orph' = NoAddr
    /\ prev' = NoOp
    /\ last' = Op("block_alloc_reuse", orph, r.ret, NoAddr, scan_fsize, tag)
    /\ UNCHANGED <<tvars, mvars, xvars>>

NextH ==
  \/ \E p \in AllocShapes : call_block_alloc(p[1], p[2])
  \/ \E c \in Addr \cup {NoAddr} : call_ref_alloc(c)
  \/ \E b \in Addr : call_dup_block(b)
  \/ \E b \in Addr : call_drop_block(b)
  \/ \E b \in Addr : call_block_release0(b)
  \/ \E b \in Addr : call_block_release1(b)
  \/ call_block_no_reuse
  \/ \E p \in AllocShapes : call_block_alloc_reuse(p[1], p[2])

IdleT ==
  /\ tpc = [t \in 1..NThreads |-> "idle"]
  /\ trc = [t \in 1..NThreads |-> U32Zero]
  /\ town = [t \in 1..NThreads |-> 0]
  /\ tops = [t \in 1..NThreads |-> 0]
  /\ ndup = 0
  /\ ndrop = 0
  /\ rc0 = U32Zero

IdleM ==
  /\ marker_ctr = 0
  /\ mk_first = 0
  /\ mk_ret = 0
  /\ mk_n = 0
  /\ mk_calls = 0
  /\ mk_trap = FALSE

\* No bigint block.
NoBlock == -1

\* A call of gen_unique not made yet.
\* No integer.
NoInt == [val |-> -1, big |-> FALSE]

NoCall == [pre |-> NoInt, ret |-> NoInt, post |-> NoInt, prior |-> NoInt]

\* ctx->unique is the small integer 0; no bigint exists.
IdleU ==
  /\ unique = [val |-> 0, big |-> FALSE]
  /\ ints = [n \in 0..MaxUnique |-> NoBlock]
  /\ uq_held = {}
  /\ uq_last = NoCall

\* An array of half the capacity.
YIELD_CONT_MAX_half == 8 \div 2

YIELD_CONT_MAX == 8

YIELD_NONE == 0
YIELD_NORMAL == 1
YIELD_FINAL == 2

\* No marker: a frame that is not a handler, a yield state not in use.
NoMarker == -1

\* The identity function value.
function_id == [frame |-> 0, conts |-> <<>>]

\* The yield state of a context that has never yielded.
NoYield ==
  [marker |-> NoMarker, clause |-> "none", conts_count |-> 0,
   conts |-> [i \in 0..YIELD_CONT_MAX - 1 |-> function_id]]

\* The context is not yielding and no frame is on the call chain.
IdleY ==
  /\ ctx_yielding = YIELD_NONE
  /\ yield = NoYield
  /\ stack = <<>>
  /\ yphase = "finished"
  /\ effects = [i \in 1..MaxDepth + 2 |-> 0]
  /\ appended = <<>>
  /\ ncompose = 0
  /\ clause_calls = 0
  /\ clause_frame = 0
  /\ kont = function_id
  /\ ytarget = NoMarker
  /\ ydepth = 0
  /\ ykind = "none"
  /\ yx = 0
  /\ result = 0

\* No assertion has failed (and none is checked).
IdleA ==
  /\ asserts = FALSE
  /\ aborted = FALSE

\* Addresses of the vector specification: vector_empty and one vector.
VAddr == 0..1

\* Address of the static vector_empty.
vector_empty == 0

\* No vector operation yet.
NoVecOp ==
  [op |-> "none", length |-> 0, ret |-> NoAddr, pre |-> FreeBlock,
   pre1 |-> FreeBlock, box |-> Uninit, unboxed |-> NoAddr]

\* vector_empty is all there is.
IdleV ==
  /\ vheap = [a \in VAddr |->
       IF a = vector_empty
       THEN [FreeBlock EXCEPT !.st = "static",
                              !.header = HEADER_STATIC(0, TAG_VECTOR)]
       ELSE FreeBlock]
  /\ vwords = <<Uninit, Uninit>>
  /\ vlast = NoVecOp

\* The context_t of worker thread t at startup: not yielding, an empty
\* evidence vector, nothing to free, both counters at their start.
context_init(t, m0, u0) ==
  [yielding |-> YIELD_NONE, heap |-> t, evv |-> vector_empty,
   yield |-> NoYield, marker_unique |-> m0, delayed_free |-> NoAddr,
   unique |-> u0, thread_id |-> t, log |-> function_id,
   out |-> function_id]


\* Every worker thread has its context as it was at startup.
IdleC ==
  /\ contexts = [t \in 1..NThreads |->
                   context_init(t, 0, [val |-> 0, big |-> FALSE])]
  /\ cx_ints = [t \in 1..NThreads |-> [n \in 0..MaxUnique |-> NoBlock]]
  /\ cx_ops = 0
  /\ cx_trap = FALSE
  /\ cx_last = [op |-> "none", t |-> 0, pre |-> contexts]

IdleX == IdleU /\ IdleY /\ IdleA /\ IdleV /\ IdleC

Init == InitH /\ IdleT /\ IdleM /\ IdleX

\* ------------------------------------------------------------- allocation
\* The scan-field counts and tags blocks are allocated with: the small
\* counts up to the largest one the header holds, and for large blocks
\* counts below, at and above the sentinel.
SmallScan == {0, 1, 253, 254}
LargeScan == {0, 255, 256, 100000}
SmallTags == {TAG_MIN, TAG_VECTOR_SMALL}

InitA == IdleH /\ IdleT /\ IdleM /\ IdleX

NextA ==
  \/ \E n \in SmallScan, t \in SmallTags : call_block_alloc(n, t)
  \/ \E n \in LargeScan : call_block_large_alloc(n, TAG_VECTOR)
  \/ \E b \in Addr : call_block_release0(b)
  \/ call_block_no_reuse

SpecAlloc == InitA /\ [][NextA]_vars

Spec == Init /\ [][NextH]_vars

\* ------------------------------------------------------- concurrent threads
\* Block 1 has been promoted to thread-shared and every thread owns one
\* reference to it. Its count reads negative and is at least NThreads above
\* 0x80000000, so that it still reads negative when all but one of the
\* references the threads own are dropped; 0xBFFFFFFF is two dups away from
\* the sticky range.
SharedBlock == 1

PromotedCounts == {U32(32768, NThreads), U32(49151, 65535)}

InitT ==
  /\ \E c \in PromotedCounts :
       /\ heap = [a \in Addr |->
            IF a = orphan_null
            THEN [FreeBlock EXCEPT !.st = "static",
                                   !.header = HEADER_STATIC(0, TAG_INVALID)]
            ELSE IF a = SharedBlock
            THEN [st |-> "live",
                  header |-> [refcount |-> c, tag |-> TAG_MIN,
                              scan_fsize |-> 0, thread_shared |-> 1],
                  large_scan_fsize |-> Uninit, field |-> Uninit]
            ELSE FreeBlock]
       /\ rc0 = c
  /\ held = [a \in Addr |-> 0]
  /\ fresh = {}
  /\ orph = NoAddr
  /\ last = NoOp
  /\ prev = NoOp
  /\ tpc = [t \in 1..NThreads |-> "idle"]
  /\ trc = [t \in 1..NThreads |-> U32Zero]
  /\ town = [t \in 1..NThreads |-> 1]
  /\ tops = [t \in 1..NThreads |-> 0]
  /\ ndup = 0
  /\ ndrop = 0
  /\ IdleM
  /\ IdleX

\* uint32_t rc = b->header.refcount, in dup_block.
t_dup_load(t) ==
  /\ tpc[t] = "idle"
  /\ tops[t] < MaxThreadOps
  /\ town[t] >= 1
  /\ trc' = [trc EXCEPT ![t] = heap[SharedBlock].header.refcount]
  /\ tpc' = [tpc EXCEPT ![t] = "dup"]
  /\ UNCHANGED <<hvars, town, tops, ndup, ndrop, rc0, mvars, xvars>>

\* The rest of dup_block, with the rc loaded before.
t_dup_rest(t) ==
  /\ tpc[t] = "dup"
  /\ heap' = dup_block_rc(heap, SharedBlock, trc[t])
  /\ tpc' = [tpc EXCEPT ![t] = "idle"]
  /\ town' = [town EXCEPT ![t] = town[t] + 1]
  /\ tops' = [tops EXCEPT ![t] = tops[t] + 1]
  /\ ndup' = ndup + 1
  /\ UNCHANGED <<held, fresh, orph, last, prev, trc, ndrop, rc0, mvars, xvars>>

\* uint32_t rc = b->header.refcount, in drop_block.
t_drop_load(t) ==
  /\ tpc[t] = "idle"
  /\ tops[t] < MaxThreadOps
  /\ town[t] >= 1
  /\ trc' = [trc EXCEPT ![t] = heap[SharedBlock].header.refcount]
  /\ tpc' = [tpc EXCEPT ![t] = "drop"]
  /\ UNCHANGED <<hvars, town, tops, ndup, ndrop, rc0, mvars, xvars>>

\* The rest of drop_block, with the rc loaded before.
t_drop_rest(t) ==
  /\ tpc[t] = "drop"
  /\ heap' = drop_block_rc(heap, SharedBlock, trc[t])
  /\ tpc' = [tpc EXCEPT ![t] = "idle"]
  /\ town' = [town EXCEPT ![t] = town[t] - 1]
  /\ tops' = [tops EXCEPT ![t] = tops[t] + 1]
  /\ ndrop' = ndrop + 1
  /\ UNCHANGED <<held, fresh, orph, last, prev, trc, ndup, rc0, mvars, xvars>>

NextT ==
  \/ \E t \in 1..NThreads : t_dup_load(t)
  \/ \E t \in 1..NThreads : t_dup_rest(t)
  \/ \E t \in 1..NThreads : t_drop_load(t)
  \/ \E t \in 1..NThreads : t_drop_rest(t)

SpecMT == InitT /\ [][NextT]_vars

\* ------------------------------------------------------ the marker counter
INT32_MAX == 2147483647
INT32_MIN == -INT32_MAX - 1

\* Calls of marker_unique taken in one step by marker_unique_run.
MarkerRun == INT32_MAX

\* n post-increments of an int32_t counter c pass INT32_MAX.
marker_overflows(c, n) == c > INT32_MAX - n

\* The int32_t counter after n post-increments (1 <= n <= INT32_MAX), in
\* two's complement: c + n, less 2^32 when that passes INT32_MAX.
marker_after(c, n) ==
  IF marker_overflows(c, n)
  THEN ((c - INT32_MAX) - 1) + ((n - INT32_MAX) - 1)
  ELSE c + n

\* marker_unique: return ctx->marker_unique++.
marker_unique(c) == [ret |-> c, ctr |-> marker_after(c, 1)]

InitM ==
  /\ IdleH
  /\ IdleT
  /\ marker_ctr \in {0, 1}
  /\ mk_first = 0
  /\ mk_ret = 0
  /\ mk_n = 0
  /\ mk_calls = 0
  /\ mk_trap = FALSE
  /\ IdleX

\* One call. Incrementing an int32_t that holds INT32_MAX is undefined: the
\* build either wraps it to INT32_MIN or traps.
call_marker_unique ==
  /\ ~ mk_trap
  /\ mk_calls < MaxMarkerCalls
  /\ mk_calls' = mk_calls + 1
  /\ mk_first' = IF mk_n = 0 THEN marker_unique(marker_ctr).ret ELSE mk_first
  /\ mk_ret' = marker_unique(marker_ctr).ret
  /\ mk_n' = IF mk_n = 0 THEN 1 ELSE 2
  /\ \/ /\ marker_ctr' = marker_unique(marker_ctr).ctr
        /\ mk_trap' = FALSE
     \/ /\ marker_overflows(marker_ctr, 1)
        /\ marker_ctr' = marker_ctr
        /\ mk_trap' = TRUE
  /\ UNCHANGED <<hvars, tvars, xvars>>

\* MarkerRun calls in a row whose results are not recorded: the counter
\* moves as the calls would move it one by one.
marker_unique_run ==
  /\ ~ mk_trap
  /\ mk_calls < MaxMarkerCalls
  /\ mk_calls' = mk_calls + 1
  /\ \/ /\ marker_ctr' = marker_after(marker_ctr, MarkerRun)
        /\ mk_trap' = FALSE
     \/ /\ marker_overflows(marker_ctr, MarkerRun)
        /\ marker_ctr' = INT32_MAX
        /\ mk_trap' = TRUE
  /\ UNCHANGED <<hvars, tvars, xvars, mk_first, mk_ret, mk_n>>

NextM ==
  \/ call_marker_unique
  \/ marker_unique_run

SpecMarker == InitM /\ [][NextM]_vars

\* ------------------------------------------------------ the unique counter
\* An integer_t is a small integer kept in the box itself, or a pointer to a
\* bigint block: [val, big]. ints[n] is the stored count of the bigint block
\* that holds n (0: one owner), or NoBlock when there is no such block.
notU == <<hvars, tvars, mvars, yvars, avars, vvars, cvars>>

\* dup_integer: the block of a bigint gets one more owner.
dup_integer(is, x) ==
  IF x.big THEN [is EXCEPT ![x.val] = @ + 1] ELSE is

\* drop_integer: the block of a bigint loses an owner, and is freed when it
\* was the only one.
drop_integer(is, x) ==
  IF ~ x.big THEN is
  ELSE IF is[x.val] = 0 THEN [is EXCEPT ![x.val] = NoBlock]
  ELSE [is EXCEPT ![x.val] = @ - 1]

\* integer_inc consumes x and returns x+1, which the caller owns. The result
\* is a bigint when x is one, or when x+1 no longer fits a small integer
\* (big says which). Arbitrary precision: the value never wraps.
integer_inc(is, x, big) ==
  LET r == [val |-> x.val + 1, big |-> big]
      is1 == IF big THEN [is EXCEPT ![r.val] = 0] ELSE is
  IN  [ints |-> drop_integer(is1, x), ret |-> r]

\* A gen_unique that increments the context's own reference.
gen_unique_nodup(u, is, big) ==
  LET r == integer_inc(is, u, big)
  IN  [ret |-> u, unique |-> r.ret, ints |-> r.ints]

\* integer_t u = ctx->unique;
\* ctx->unique = integer_inc(dup_integer(u), ctx); return u;
gen_unique(u, is, big) ==
  LET r == integer_inc(dup_integer(is, u), u, big)
  IN  [ret |-> u, unique |-> r.ret, ints |-> r.ints]

\* The counter starts at 0, as a small integer or (a counter that has
\* already outgrown the small integers, renumbered from 0) as a bigint.
InitU ==
  /\ IdleH
  /\ IdleT
  /\ IdleM
  /\ IdleY
  /\ IdleA
  /\ IdleV
  /\ IdleC
  /\ \E big \in BOOLEAN :
       /\ unique = [val |-> 0, big |-> big]
       /\ ints = [n \in 0..MaxUnique |->
                    IF n = 0 /\ big THEN 0 ELSE NoBlock]
  /\ uq_held = {}
  /\ uq_last = NoCall

call_gen_unique ==
  /\ unique.val < MaxUnique
  /\ \E big \in {b \in BOOLEAN : unique.big => b} :
       LET g == gen_unique(unique, ints, big) IN
       /\ unique' = g.unique
       /\ ints' = g.ints
       /\ uq_held' = uq_held \cup {g.ret}
       /\ uq_last' = [pre |-> unique, ret |-> g.ret, post |-> g.unique,
                      prior |-> uq_last.ret]
  /\ UNCHANGED notU

\* The caller drops an integer gen_unique gave it.
call_drop_integer ==
  /\ \E x \in uq_held :
       /\ ints' = drop_integer(ints, x)
       /\ uq_held' = uq_held \ {x}
  /\ UNCHANGED <<unique, uq_last, notU>>

NextU ==
  \/ call_gen_unique
  \/ call_drop_integer

SpecUnique == InitU /\ [][NextU]_vars


\* ---------------------------------------------------------------- yielding
notY == <<hvars, tvars, mvars, uvars, avars, vvars, cvars>>

\* Is the execution yielding?
yielding_final_only(c) == c = YIELD_FINAL

yielding(c) == c # YIELD_NONE

yielding_non_final(c) == c = YIELD_NORMAL

\* A function value is the resumption closure of a frame (frame > 0, no
\* conts), the identity, or the composition of an array of function values.
resume_closure(i) == [frame |-> i, conts |-> <<>>]

\* What resuming frame i does to the value it is resumed with. Two frames
\* do not commute, so the order of composition shows in the result.
frame_resume(i, x) == 2 * x + i

\* A composition that applies the last entry of the array first.
kcompose_rev(fs) ==
  [frame |-> 0, conts |-> [j \in 1..Len(fs) |-> fs[Len(fs) + 1 - j]]]

\* The composition fN o ... o f2 o f1 of conts = {f1, f2, ..., fN}; the
\* entries are kept in the order they are applied in, f1 first.
kcompose(fs) == [frame |-> 0, conts |-> fs]

RECURSIVE function_call(_, _)
RECURSIVE call_in_order(_, _)

\* Apply the function values of fs one after another, the first one first.
call_in_order(fs, x) ==
  IF fs = <<>> THEN x
  ELSE call_in_order(Tail(fs), function_call(Head(fs), x))

function_call(f, x) ==
  IF f.conts # <<>> THEN call_in_order(f.conts, x)
  ELSE IF f.frame = 0 THEN x
  ELSE frame_resume(f.frame, x)

\* The entries conts[0 .. n-1] of the array, as a sequence.
Stored(y) == [j \in 1..y.conts_count |-> y.conts[j - 1]]

\* An append that overwrites the last slot when the array is full.
yield_extend_drop(y, next) ==
  IF y.conts_count + 1 < YIELD_CONT_MAX
  THEN [y EXCEPT !.conts[y.conts_count] = next, !.conts_count = @ + 1]
  ELSE [y EXCEPT !.conts[YIELD_CONT_MAX - 2] = next]

\* Append a resumption closure. When that fills the array, its first
\* YIELD_CONT_MAX - 1 entries are composed into one function value that
\* replaces them; the slots behind the two entries left are free again.
yield_extend(y, next) ==
  LET c1 == [y.conts EXCEPT ![y.conts_count] = next]
      n1 == y.conts_count + 1
  IN  IF n1 < YIELD_CONT_MAX
      THEN [y EXCEPT !.conts = c1, !.conts_count = n1]
      ELSE [y EXCEPT
              !.conts = [i \in 0..YIELD_CONT_MAX - 1 |->
                IF i = 0
                THEN kcompose([j \in 1..YIELD_CONT_MAX - 1 |-> c1[j - 1]])
                ELSE IF i = 1 THEN c1[YIELD_CONT_MAX - 1]
                ELSE function_id],
              !.conts_count = 2]

\* The appending of next to y composes.
Fills(y) == y.conts_count + 1 >= YIELD_CONT_MAX

\* The final continuation k, composed of the pending continuations.
yield_cont(y) == kcompose(Stored(y))

\* Performing an operation: the mode is set by the caller, the target
\* marker and the clause are recorded, no continuation is pending.
yield_to(y, m, clause) ==
  [y EXCEPT !.marker = m, !.clause = clause, !.conts_count = 0]


Top == stack[Len(stack)]
Pop == SubSeq(stack, 1, Len(stack) - 1)

\* Frames above (called by) the frame that holds marker m.
FramesAbove(m) ==
  Cardinality({i \in 1..Len(stack) :
                 \E j \in 1..Len(stack) : stack[j].marker = m /\ j < i})

\* The top frame is where the yield stops: the handler with the target
\* marker of a normal yield, the root handler of a final one.
Catches ==
  \/ ctx_yielding = YIELD_NORMAL /\ Top.marker = yield.marker
  \/ ctx_yielding = YIELD_FINAL /\ Len(stack) = 1

\* The call chain: the root handler (marker 0), a handler (marker 1), and d
\* frames beneath it, of which frame p (if any) is a handler with marker 2.
InitY ==
  /\ IdleH
  /\ IdleT
  /\ IdleM
  /\ IdleU
  /\ IdleA
  /\ IdleV
  /\ IdleC
  /\ \E d \in 0..MaxDepth : \E p \in 0..d :
       stack = <<[id |-> 1, marker |-> 0], [id |-> 2, marker |-> 1]>> \o
               [i \in 1..d |->
                  [id |-> i + 2,
                   marker |-> IF i = p THEN 2 ELSE NoMarker]]
  /\ yphase = "running"
  /\ ctx_yielding = YIELD_NONE
  /\ yield = NoYield
  /\ effects = [i \in 1..MaxDepth + 2 |-> 0]
  /\ appended = <<>>
  /\ ncompose = 0
  /\ clause_calls = 0
  /\ clause_frame = 0
  /\ kont = function_id
  /\ ytarget = NoMarker
  /\ ydepth = 0
  /\ ykind = "none"
  /\ yx = 0
  /\ result = 0

\* The code beneath the top frame performs an operation of the handler
\* with marker m, which is on the call chain.
perform_normal(m) ==
  /\ yphase = "running"
  /\ \E j \in 1..Len(stack) : stack[j].marker = m
  /\ ctx_yielding' = YIELD_NORMAL
  /\ yield' = yield_to(yield, m, "clause")
  /\ yphase' = "unwinding"
  /\ ytarget' = m
  /\ ydepth' = FramesAbove(m)
  /\ ykind' = "normal"
  /\ UNCHANGED <<stack, effects, appended, ncompose, clause_calls,
                 clause_frame, kont, yx, result, notY>>

\* The code beneath the top frame yields finally, to the root handler.
perform_final ==
  /\ yphase = "running"
  /\ ctx_yielding' = YIELD_FINAL
  /\ yield' = yield_to(yield, stack[1].marker, "none")
  /\ yphase' = "unwinding"
  /\ ytarget' = stack[1].marker
  /\ ydepth' = Len(stack) - 1
  /\ ykind' = "final"
  /\ UNCHANGED <<stack, effects, appended, ncompose, clause_calls,
                 clause_frame, kont, yx, result, notY>>

\* The call of the top frame returned and nothing is yielding: the frame
\* goes on, runs the rest of its body and returns.
frame_return ==
  /\ yphase \in {"running", "unwinding"}
  /\ Len(stack) > 1
  /\ ~ yielding(ctx_yielding)
  /\ effects' = [effects EXCEPT ![Top.id] = @ + 1]
  /\ stack' = Pop
  /\ UNCHANGED <<ctx_yielding, yield, yphase, appended, ncompose,
                 clause_calls, clause_frame, kont, ytarget, ydepth, ykind,
                 yx, result, notY>>

\* The check after the call finds the context yielding, and this frame is
\* not where the yield stops: it appends its resumption closure and returns
\* at once.
frame_yield ==
  /\ yphase \in {"running", "unwinding"}
  /\ yielding(ctx_yielding)
  /\ ~ Catches
  /\ yield' = yield_extend(yield, resume_closure(Top.id))
  /\ ncompose' = IF Fills(yield) THEN ncompose + 1 ELSE ncompose
  /\ appended' = Append(appended, Top.id)
  /\ stack' = Pop
  /\ UNCHANGED <<ctx_yielding, yphase, effects, clause_calls, clause_frame,
                 kont, ytarget, ydepth, ykind, yx, result, notY>>

\* The handler with the target marker is reached: it resets the mode and
\* invokes the recorded clause with the composed continuation.
handler_catch ==
  /\ yphase \in {"running", "unwinding"}
  /\ yielding_non_final(ctx_yielding)
  /\ Top.marker = yield.marker
  /\ ctx_yielding' = YIELD_NONE
  /\ kont' = yield_cont(yield)
  /\ clause_calls' = clause_calls + 1
  /\ clause_frame' = Top.id
  /\ yphase' = "handled"
  /\ UNCHANGED <<yield, stack, effects, appended, ncompose, ytarget, ydepth,
                 ykind, yx, result, notY>>

\* The root handler consumes a final yield; no clause is invoked.
root_final ==
  /\ yphase \in {"running", "unwinding"}
  /\ ctx_yielding = YIELD_FINAL
  /\ Len(stack) = 1
  /\ ctx_yielding' = YIELD_NONE
  /\ yphase' = "finished"
  /\ UNCHANGED <<yield, stack, effects, appended, ncompose, clause_calls,
                 clause_frame, kont, ytarget, ydepth, ykind, yx, result,
                 notY>>

\* The clause resumes: it calls the continuation with the value x.
clause_resume(x) ==
  /\ yphase = "handled"
  /\ yx' = x
  /\ result' = function_call(kont, x)
  /\ yphase' = "resumed"
  /\ UNCHANGED <<ctx_yielding, yield, stack, effects, appended, ncompose,
                 clause_calls, clause_frame, kont, ytarget, ydepth, ykind,
                 notY>>

NextY ==
  \/ \E m \in 0..2 : perform_normal(m)
  \/ perform_final
  \/ frame_return
  \/ frame_yield
  \/ handler_catch
  \/ root_final
  \/ \E x \in 0..1 : clause_resume(x)

SpecYield == InitY /\ [][NextY]_vars

\* Every frame that can take a step does so in the end.
SpecYieldFair == SpecYield /\ WF_vars(NextY)


\* -------------------------------------------------------------- assertions
notA == <<tvars, mvars, uvars, yvars, vvars, cvars>>

\* assert_internal(cond) stops the process when cond is false and the build
\* checks internal assertions; a build that does not check them goes on.
assert_internal(checked, cond) == checked /\ ~ cond

\* runtime_realloc: the block stays at b (a = b) or moves to the free
\* address a, its bytes with it, and b returns to the allocator.
runtime_realloc(h, b, a) ==
  IF a = b THEN h ELSE [h EXCEPT ![a] = h[b], ![b] = FreeBlock]

\* A block_realloc without the assertion.
block_realloc_noassert(h, b, a, checked) ==
  [abort |-> FALSE, heap |-> runtime_realloc(h, b, a), ret |-> a]

\* assert_internal(block_is_unique(b)); return runtime_realloc(b, size, ctx);
block_realloc(h, b, a, checked) ==
  IF assert_internal(checked, block_is_unique(h[b]))
  THEN [abort |-> TRUE, heap |-> h, ret |-> NoAddr]
  ELSE [abort |-> FALSE, heap |-> runtime_realloc(h, b, a), ret |-> a]

\* Block 1 exists with a count drawn from InitCounts; the build checks
\* internal assertions or it does not.
InitRe ==
  /\ InitH
  /\ IdleT
  /\ IdleM
  /\ IdleU
  /\ IdleY
  /\ IdleV
  /\ IdleC
  /\ asserts \in BOOLEAN
  /\ aborted = FALSE

\* The mutator reallocates block b, of which it owns a reference.
call_block_realloc(b) ==
  /\ ~ aborted
  /\ Live(b)
  /\ held[b] >= 1
  /\ \E a \in Addr :
       /\ a = b \/ MallocReturns(a)
       /\ LET r == block_realloc(heap, b, a, asserts) IN
          /\ heap' = r.heap
          /\ aborted' = r.abort
          /\ held' = IF r.abort \/ a = b THEN held
                     ELSE [held EXCEPT ![a] = held[b], ![b] = 0]
          /\ last' = Op("block_realloc", b, r.ret, NoAddr, 0, 0)
  /\ prev' = NoOp
  /\ UNCHANGED <<fresh, orph, asserts, notA>>

dup_before_realloc(b) == ~ aborted /\ call_dup_block(b)

drop_before_realloc(b) == ~ aborted /\ call_drop_block(b)

NextRe ==
  \/ \E b \in Addr : dup_before_realloc(b)
  \/ \E b \in Addr : drop_before_realloc(b)
  \/ \E b \in Addr : call_block_realloc(b)

SpecRealloc == InitRe /\ [][NextRe]_vars


\* ----------------------------------------------------------------- vectors
notV == <<hvars, tvars, mvars, uvars, yvars, cvars>>

\* The word box_null holds: no value boxes to it.
box_null == -3

\* (const block_large_t*)b: the block read as a large block, whose
\* large_scan_fsize is the first word behind the header.
as_block_large(blk, w) == [blk EXCEPT !.large_scan_fsize = w[1]]

\* block_scan_fsize of the vector at v, whose payload words are w.
vector_scan_fsize(h, w, v) == block_scan_fsize(as_block_large(h[v], w))

\* vector_len: the length field is the first word behind the header of a
\* vector_small_s, and the second one (behind large_scan_fsize) of a
\* vector_large_s.
vector_len(h, w, v) ==
  IF block_tag(h[v]) = TAG_VECTOR_SMALL THEN unbox_enum(w[1])
  ELSE unbox_enum(w[2])

\* vector_alloc, with a the address runtime_malloc returns and w the words
\* behind the header at a. block_alloc asserts scan_fsize < SCAN_FSIZE_MAX.
vector_alloc(h, w, a, length, def, checked) ==
  IF length = 0
  THEN [abort |-> FALSE, heap |-> dup_block(h, vector_empty), words |-> w,
        ret |-> vector_empty]
  ELSE IF length < SCAN_FSIZE_MAX
  THEN IF assert_internal(checked, 1 + length < SCAN_FSIZE_MAX)
       THEN [abort |-> TRUE, heap |-> h, words |-> w, ret |-> NoAddr]
       ELSE [abort |-> FALSE,
             heap |-> block_alloc(h, a, 1 + length, TAG_VECTOR_SMALL),
             words |-> <<box_enum(length),
                         IF def # box_null THEN def ELSE Uninit>>,
             ret |-> a]
  ELSE LET h1 == block_large_alloc(h, a, 1 + length, TAG_VECTOR) IN
       [abort |-> FALSE, heap |-> h1,
        words |-> <<h1[a].large_scan_fsize, box_enum(length)>>,
        ret |-> a]

\* box_vector_t evaluates box_ptr(&v->_block) and has no return statement:
\* the box the caller gets is whatever the build leaves in its place, r.
box_vector_t(v, r) == r

\* The words a call of box_vector_t(v) can return: the pointer (the value
\* computed last), another pointer, or a direct value.
BoxOutcomes(v) == {box_ptr(v)} \cup {box_ptr(a) : a \in VAddr} \cup {box_enum(0)}

\* unbox_vector_t asserts that the block has a vector tag.
unbox_vector_t(h, v, checked) ==
  LET b == unbox_ptr(v) IN
  IF assert_internal(checked, block_tag(h[b]) = TAG_VECTOR_SMALL
                              \/ block_tag(h[b]) = TAG_VECTOR)
  THEN [abort |-> TRUE, ret |-> NoAddr]
  ELSE [abort |-> FALSE, ret |-> b]

\* The lengths vectors are allocated with, and the default values.
VecLengths == {0, 1, 2, 253, 254, 255, 256, 1000}
VecDefs == {box_null, box_enum(7)}

\* The count vector_empty starts with.
EmptyCount == vheap[vector_empty].header.refcount

InitV ==
  /\ IdleH
  /\ IdleT
  /\ IdleM
  /\ IdleU
  /\ IdleY
  /\ IdleV
  /\ IdleC
  /\ asserts \in BOOLEAN
  /\ aborted = FALSE

call_vector_alloc(length, def) ==
  /\ ~ aborted
  /\ IF length = 0
     THEN ~ U32Ge(EmptyCount, U32Plus(HEADER_STATIC(0, 0).refcount, MaxEmpty))
     ELSE vheap[1].st = "free"
  /\ LET r == vector_alloc(vheap, vwords, 1, length, def, asserts) IN
     /\ vheap' = r.heap
     /\ vwords' = r.words
     /\ aborted' = r.abort
     /\ vlast' = [op |-> "vector_alloc", length |-> length, ret |-> r.ret,
                  pre |-> vheap[vector_empty], pre1 |-> vheap[1],
                  box |-> def, unboxed |-> NoAddr]
  /\ UNCHANGED <<asserts, notV>>

\* drop_vector of the allocated vector (v = 1) or of a reference to
\* vector_empty that vector_alloc(0) returned (v = 0).
call_drop_vector(v) ==
  /\ ~ aborted
  /\ IF v = vector_empty
     THEN EmptyCount # HEADER_STATIC(0, 0).refcount
     ELSE vheap[v].st = "live"
  /\ vheap' = drop_block(vheap, v)
  /\ vwords' = IF v = vector_empty THEN vwords ELSE <<Uninit, Uninit>>
  /\ vlast' = [NoVecOp EXCEPT !.op = "drop_vector", !.ret = v]
  /\ UNCHANGED <<avars, notV>>

\* unbox_vector_t(box_vector_t(v, ctx), ctx) of a vector v.
call_box_unbox(v) ==
  /\ ~ aborted
  /\ vheap[v].st # "free"
  /\ \E r \in BoxOutcomes(v) :
       LET u == unbox_vector_t(vheap, box_vector_t(v, r), asserts) IN
       /\ aborted' = u.abort
       /\ vlast' = [op |-> "box_unbox", length |-> 0, ret |-> v,
                    pre |-> vheap[v], pre1 |-> vheap[1],
                    box |-> box_vector_t(v, r), unboxed |-> u.ret]
  /\ UNCHANGED <<vheap, vwords, asserts, notV>>

NextV ==
  \/ \E n \in VecLengths : \E d \in VecDefs : call_vector_alloc(n, d)
  \/ \E v \in VAddr : call_drop_vector(v)
  \/ \E v \in VAddr : call_box_unbox(v)

SpecVec == InitV /\ [][NextV]_vars


\* --------------------------------------------------------- reference cells
\* dup_boxed: a pointer is dup'ed, a direct value needs no count.
dup_boxed(h, v) == IF is_ptr(v) THEN dup_block(h, unbox_ptr(v)) ELSE h

\* A ref_get that returns the stored value without dup'ing it.
ref_get_nodup(h, r) == [heap |-> h, ret |-> h[r].field]

\* return dup_boxed(b->value);
ref_get(h, r) == [heap |-> dup_boxed(h, h[r].field), ret |-> h[r].field]

\* A ref_set that overwrites the stored value without dropping it.
ref_set_nodrop(h, r, value) == [h EXCEPT ![r].field = value]

\* box_t b = r->value; drop_boxed(b, ctx); r->value = value;
ref_set(h, r, value) == [drop_boxed(h, h[r].field) EXCEPT ![r].field = value]

\* box_t b = r->value; r->value = value; return b;
ref_swap(h, r, value) ==
  [heap |-> [h EXCEPT ![r].field = value], ret |-> h[r].field]

\* The box of the block at n, or a direct value for NoAddr.
BoxOf(n) == IF n = NoAddr THEN box_enum(0) ELSE box_ptr(n)

\* c is a reference cell the mutator can pass: it owns a reference to it.
IsRef(c) ==
  /\ c # orphan_null
  /\ Live(c)
  /\ block_tag(heap[c]) = TAG_REF
  /\ held[c] >= 1

\* The mutator can hand over the value BoxOf(n) while it still passes the
\* cell c: it owns a reference to n, and one more when n is c itself.
CanGive(c, n) ==
  n # NoAddr =>
    /\ n # orphan_null
    /\ Live(n)
    /\ held[n] >= (IF n = c THEN 2 ELSE 1)

\* ref_get(c): the caller owns the value returned.
call_ref_get(c) ==
  LET t == Target(heap[c].field) IN
  /\ IsRef(c)
  /\ t # NoAddr => held[t] < MaxHeld
  /\ heap' = ref_get(heap, c).heap
  /\ held' = [x \in Addr |-> IF x = t THEN held[x] + 1 ELSE held[x]]
  /\ prev' = NoOp
  /\ last' = Op("ref_get", c, Target(ref_get(heap, c).ret), t, 0, 0)
  /\ UNCHANGED <<fresh, orph, tvars, mvars, xvars>>

\* ref_set(c, BoxOf(n)): the caller gives its reference to n to the cell.
call_ref_set(c, n) ==
  /\ IsRef(c)
  /\ CanGive(c, n)
  /\ heap' = ref_set(heap, c, BoxOf(n))
  /\ held' = [x \in Addr |-> IF x = n THEN held[x] - 1 ELSE held[x]]
  /\ prev' = NoOp
  /\ last' = Op("ref_set", c, n, Target(heap[c].field), 0, 0)
  /\ UNCHANGED <<fresh, orph, tvars, mvars, xvars>>

\* ref_swap(c, BoxOf(n)): the caller gives its reference to n to the cell
\* and owns the value that was stored.
call_ref_swap(c, n) ==
  LET r == ref_swap(heap, c, BoxOf(n))
      o == Target(r.ret)
  IN  /\ IsRef(c)
      /\ CanGive(c, n)
      /\ o # NoAddr /\ o # n => held[o] < MaxHeld
      /\ heap' = r.heap
      /\ held' = [x \in Addr |->
           held[x] + (IF x = o THEN 1 ELSE 0) - (IF x = n THEN 1 ELSE 0)]
      /\ prev' = NoOp
      /\ last' = Op("ref_swap", c, n, o, 0, 0)
      /\ UNCHANGED <<fresh, orph, tvars, mvars, xvars>>

InitR == IdleH /\ IdleT /\ IdleM /\ IdleX

NextR ==
  \/ call_block_alloc(0, TAG_MIN)
  \/ \E c \in Addr \cup {NoAddr} : call_ref_alloc(c)
  \/ \E c \in Addr : call_ref_get(c)
  \/ \E c \in Addr : \E n \in Addr \cup {NoAddr} : call_ref_set(c, n)
  \/ \E c \in Addr : \E n \in Addr \cup {NoAddr} : call_ref_swap(c, n)
  \/ \E b \in Addr : call_dup_block(b)
  \/ \E b \in Addr : call_drop_block(b)

SpecRef == InitR /\ [][NextR]_vars


\* ------------------------------------------------- the contexts of threads
\* Every worker thread has one context_t; an operation is given the context
\* of the thread that calls it. The bigint blocks an integer_t may point to
\* live in the heap of that thread (cx_ints).
notC == <<hvars, tvars, mvars, uvars, yvars, avars, vvars>>

\* A marker_unique that also takes the fresh marker as the target of the
\* yield state.
marker_unique_ctx_target(ctx) ==
  LET m == marker_unique(ctx.marker_unique)
  IN  [ret |-> m.ret,
       ctx |-> [ctx EXCEPT !.marker_unique = m.ctr, !.yield.marker = m.ret]]

\* marker_unique on a context: return ctx->marker_unique++.
marker_unique_ctx(ctx) ==
  LET m == marker_unique(ctx.marker_unique)
  IN  [ret |-> m.ret, ctx |-> [ctx EXCEPT !.marker_unique = m.ctr]]

\* gen_unique on a context: u = ctx->unique;
\* ctx->unique = integer_inc(dup_integer(u), ctx); return u;
gen_unique_ctx(ctx, is, big) ==
  LET g == gen_unique(ctx.unique, is, big)
  IN  [ret |-> g.ret, ctx |-> [ctx EXCEPT !.unique = g.unique],
       ints |-> g.ints]

\* An operation yields to the handler with marker m: the context is set
\* yielding and the yield state names the target and the clause.
yield_to_ctx(ctx, kind, m) ==
  [ctx EXCEPT !.yielding = kind, !.yield = yield_to(@, m, "clause")]

\* A frame of the unwinding call chain adds its resumption closure.
yield_extend_ctx(ctx, i) ==
  [ctx EXCEPT !.yield = yield_extend(@, resume_closure(i))]

\* The handler has taken the yield: the context is running again.
yield_handled_ctx(ctx) == [ctx EXCEPT !.yielding = YIELD_NONE]

\* A handler is entered (the evidence vector holds evidence e) or left.
evv_set_ctx(ctx, e) == [ctx EXCEPT !.evv = e]

\* The marker counters start at 0 or at the last value an int32_t holds;
\* the unique counters start at 0, small or already a bigint.
InitC ==
  /\ IdleH
  /\ IdleT
  /\ IdleM
  /\ IdleU
  /\ IdleY
  /\ IdleA
  /\ IdleV
  /\ \E m0 \in {0, INT32_MAX}, big \in BOOLEAN :
       /\ contexts = [t \in 1..NThreads |->
                        context_init(t, m0, [val |-> 0, big |-> big])]
       /\ cx_ints = [t \in 1..NThreads |-> [n \in 0..MaxUnique |->
                       IF n = 0 /\ big THEN 0 ELSE NoBlock]]
  /\ cx_ops = 0
  /\ cx_trap = FALSE
  /\ cx_last = [op |-> "none", t |-> 0, pre |-> contexts]

\* An operation of thread t is issued: it is counted and recorded together
\* with the contexts as they are before it.
CtxOp(t, op) ==
  /\ ~ cx_trap
  /\ cx_ops < MaxCtxOps
  /\ cx_ops' = cx_ops + 1
  /\ cx_last' = [op |-> op, t |-> t, pre |-> contexts]

\* Thread t calls marker_unique. Incrementing an int32_t that holds
\* INT32_MAX is undefined: the build either wraps it or traps.
ctx_marker_unique(t) ==
  /\ CtxOp(t, "marker_unique")
  /\ \/ /\ contexts' = [contexts EXCEPT ![t] = marker_unique_ctx(@).ctx]
        /\ cx_trap' = FALSE
     \/ /\ marker_overflows(contexts[t].marker_unique, 1)
        /\ contexts' = contexts
        /\ cx_trap' = TRUE
  /\ UNCHANGED <<cx_ints, notC>>

\* Thread t calls gen_unique; the caller lets go of the integer returned.
ctx_gen_unique(t) ==
  /\ CtxOp(t, "gen_unique")
  /\ contexts[t].unique.val < MaxUnique
  /\ \E big \in {b \in BOOLEAN : contexts[t].unique.big => b} :
       LET g == gen_unique_ctx(contexts[t], cx_ints[t], big) IN
       /\ contexts' = [contexts EXCEPT ![t] = g.ctx]
       /\ cx_ints' = [cx_ints EXCEPT ![t] = drop_integer(g.ints, g.ret)]
  /\ UNCHANGED <<cx_trap, notC>>

\* An operation performed on thread t yields, normally or finally.
ctx_yield_to(t) ==
  /\ CtxOp(t, "yield_to")
  /\ ~ yielding(contexts[t].yielding)
  /\ \E kind \in {YIELD_NORMAL, YIELD_FINAL} :
       contexts' = [contexts EXCEPT ![t] = yield_to_ctx(@, kind, 1)]
  /\ UNCHANGED <<cx_ints, cx_trap, notC>>

\* A frame of thread t sees its context yielding normally and adds its
\* resumption closure.
ctx_yield_extend(t) ==
  /\ CtxOp(t, "yield_extend")
  /\ yielding_non_final(contexts[t].yielding)
  /\ contexts' = [contexts EXCEPT ![t] =
                    yield_extend_ctx(@, @.yield.conts_count + 1)]
  /\ UNCHANGED <<cx_ints, cx_trap, notC>>

\* The handler of thread t takes the yield.
ctx_yield_handled(t) ==
  /\ CtxOp(t, "yield_handled")
  /\ yielding(contexts[t].yielding)
  /\ contexts' = [contexts EXCEPT ![t] = yield_handled_ctx(@)]
  /\ UNCHANGED <<cx_ints, cx_trap, notC>>

\* Thread t enters its first handler, whose evidence is kept directly
\* (here: its thread id plus one), or leaves it.
ctx_evv_set(t) ==
  /\ CtxOp(t, "evv_set")
  /\ ~ yielding(contexts[t].yielding)
  /\ contexts' = [contexts EXCEPT ![t] =
       evv_set_ctx(@, IF @.evv = vector_empty THEN t + 1 ELSE vector_empty)]
  /\ UNCHANGED <<cx_ints, cx_trap, notC>>

NextC ==
  \/ \E t \in 1..NThreads : ctx_marker_unique(t)
  \/ \E t \in 1..NThreads : ctx_gen_unique(t)
  \/ \E t \in 1..NThreads : ctx_yield_to(t)
  \/ \E t \in 1..NThreads : ctx_yield_extend(t)
  \/ \E t \in 1..NThreads : ctx_yield_handled(t)
  \/ \E t \in 1..NThreads : ctx_evv_set(t)

SpecContexts == InitC /\ [][NextC]_vars


\* ------------------------------------------------------------------ claims
\* The last two operations were dup_block and then drop_block of one block.
DupThenDrop ==
  /\ prev.op = "dup_block"
  /\ last.op = "drop_block"
  /\ prev.b = last.b

C2_ChargeConservation ==
  \A b \in fresh :
    /\ heap[b].st = "live" =>
         /\ Owners(b) >= 1
         /\ ToInt32(heap[b].header.refcount) = Owners(b) - 1
    /\ heap[b].st = "free" => Owners(b) = 0
    /\ (last.op = "drop_block" /\ last.b = b) =>
         (heap[b].st = "free" <=> last.pre.header.refcount = U32Zero)

\* A block created here was dup'ed once, and the second drop freed it.
C2_Witness ==
  /\ last.op = "drop_block"
  /\ prev.op = "drop_block"
  /\ prev.b = last.b
  /\ last.b \in fresh
  /\ prev.pre.header.refcount = U32Of(1)
  /\ heap[last.b].st = "free"

\* C4: a sticky count is never changed again and its block is never freed,
\* whatever operation runs; a dup that takes a count into the sticky range
\* pins it there; and no dup_block ever leaves a stored count of 0.
C4_StickyPinned ==
  /\ [][\A b \in Addr :
          (heap[b].st = "live" /\ rc_is_sticky(heap[b].header.refcount))
            => heap'[b] = heap[b]]_vars
  /\ [](last.op = "dup_block" => heap[last.b].header.refcount # U32Zero)

\* A dup took the count from 0xC0000000 into the sticky range, and the drop
\* after it found the count sticky and left it alone.
C4_Witness ==
  /\ DupThenDrop
  /\ prev.pre.header.refcount = U32(49152, 0)
  /\ rc_is_sticky(last.pre.header.refcount)
  /\ heap[last.b].header.refcount = RC_STICKY

\* What drop_boxed does to the block a field points to: a unique block is
\* freed, a sticky count stays, any other count is one lower.
FieldDropped ==
  IF last.fpre.header.refcount = U32Zero THEN heap[last.f].st = "free"
  ELSE IF rc_is_sticky(last.fpre.header.refcount)
       THEN heap[last.f] = last.fpre
  ELSE heap[last.f] =
         [last.fpre EXCEPT !.header.refcount = U32Dec(@)]

\* What drop_block does to a block that is not unique: a sticky count stays,
\* any other count is one lower; the rest of the block is as before.
BlockDropped ==
  IF rc_is_sticky(last.pre.header.refcount) THEN heap[last.b] = last.pre
  ELSE heap[last.b] = [last.pre EXCEPT !.header.refcount = U32Dec(@)]

\* The block is now an orphan: header zeroed, storage not freed, returned.
BlockOrphaned ==
  /\ last.ret = last.b
  /\ heap[last.b].st = "orphan"
  /\ heap[last.b].header = ZeroHeader

\* C5 as claimed: block_release1 drops the field in both branches.
C5_Original ==
  (last.op = "block_release1" /\ last.f # NoAddr) => FieldDropped

\* C5 as amended: block_release1 drops the field only when the block is
\* unique (field dropped, header zeroed, block returned as orphan); when the
\* block is not unique the field is left alone: the block is dropped, the
\* empty sentinel is returned, and the block the field points to is as it
\* was before.
C5_Release1 ==
  (last.op = "block_release1" /\ last.f # NoAddr) =>
    IF block_is_unique(last.pre)
    THEN FieldDropped /\ BlockOrphaned
    ELSE /\ last.ret = orphan_null
         /\ BlockDropped
         /\ last.f # last.b => heap[last.f] = last.fpre

\* block_release1 on a shared cell whose field points to a block.
C5_Witness ==
  /\ last.op = "block_release1"
  /\ last.f # NoAddr
  /\ ~ block_is_unique(last.pre)
  /\ heap[last.f] = last.fpre

\* C6 as claimed: a unique block becomes the orphan, nothing freed or
\* dropped; a block that is not unique has its count decreased by exactly
\* one, the rest of its header unchanged, and the sentinel is returned.
C6_Original ==
  last.op = "block_release0" =>
    IF block_is_unique(last.pre)
    THEN /\ BlockOrphaned
         /\ Used(heap) = last.used
         /\ last.f # NoAddr => heap[last.f] = last.fpre
    ELSE /\ last.ret = orphan_null
         /\ heap[last.b] = [last.pre EXCEPT !.header.refcount = U32Dec(@)]

\* C6 as amended: as claimed, except that a sticky count is left unchanged
\* by the drop.
C6_Release0 ==
  last.op = "block_release0" =>
    IF block_is_unique(last.pre)
    THEN /\ BlockOrphaned
         /\ Used(heap) = last.used
         /\ last.f # NoAddr => heap[last.f] = last.fpre
    ELSE /\ last.ret = orphan_null
         /\ BlockDropped

\* block_release0 on a block whose count is sticky.
C6_Witness ==
  /\ last.op = "block_release0"
  /\ rc_is_sticky(last.pre.header.refcount)
  /\ last.ret = orphan_null

\* C7: block_alloc_reuse returns a block that is, header and payload, what
\* block_alloc gives for the same scan-field count and tag: count 0 (unique),
\* the tag, the scan-field count, thread-shared clear. With a non-empty
\* orphan it is the orphan's storage and nothing is allocated; with the empty
\* sentinel it is fresh storage.
C7_ReuseAsFresh ==
  last.op = "block_alloc_reuse" =>
    LET b == last.ret IN
    /\ heap[b] = block_alloc(heap, b, last.scan, last.tag)[b]
    /\ block_is_unique(heap[b])
    /\ block_tag(heap[b]) = last.tag
    /\ block_scan_fsize(heap[b]) = last.scan
    /\ heap[b].header.thread_shared = 0
    /\ IF last.b # orphan_null
       THEN b = last.b /\ last.pre.st = "orphan" /\ Used(heap) = last.used
       ELSE b # orphan_null /\ Used(heap) = last.used + 1

\* A non-empty orphan was reused with a shape other than the one it gave up.
C7_Witness ==
  /\ last.op = "block_alloc_reuse"
  /\ last.b # orphan_null
  /\ last.ret = last.b
  /\ block_tag(heap[last.ret]) = TAG_VECTOR_SMALL

C9_ScanFsizeRoundTrip ==
  /\ last.op = "block_large_alloc" =>
       /\ block_scan_fsize(heap[last.ret]) = last.scan
       /\ heap[last.ret].header.scan_fsize = SCAN_FSIZE_MAX
       /\ heap[last.ret].large_scan_fsize = box_enum(last.scan)
  /\ (last.op = "block_alloc" /\ last.scan < SCAN_FSIZE_MAX) =>
       /\ block_scan_fsize(heap[last.ret]) = last.scan
       /\ heap[last.ret].header.scan_fsize = last.scan

\* A large block was allocated with 100000 scan fields.
C9_Witness ==
  /\ last.op = "block_large_alloc"
  /\ last.scan = 100000
  /\ block_scan_fsize(heap[last.ret]) = 100000

C10_MarkersUnique ==
  mk_n = 2 => mk_ret # mk_first

\* Owners of the bigint block that holds n: the context, when n is its
\* counter, and the caller, when gen_unique returned n and it was not
\* dropped since.
IntOwners(n) ==
  (IF unique.val = n /\ unique.big THEN 1 ELSE 0)
  + Cardinality({x \in uq_held : x.val = n /\ x.big})

\* C11: gen_unique returns the value the counter held before the call and
\* leaves the counter one higher; successive calls return strictly
\* increasing values; the caller owns what is returned and the context owns
\* what is stored: every bigint block has exactly one count per owner, and
\* a block with no owner is freed.
C11_GenUnique ==
  /\ uq_last # NoCall =>
       /\ uq_last.ret = uq_last.pre
       /\ uq_last.post.val = uq_last.pre.val + 1
       /\ uq_last.prior # NoInt => uq_last.prior.val < uq_last.ret.val
       /\ unique.val > uq_last.ret.val
  /\ \A x \in uq_held : x.val < unique.val
  /\ \A n \in 0..MaxUnique :
       IF IntOwners(n) = 0 THEN ints[n] = NoBlock
       ELSE ints[n] = IntOwners(n) - 1

\* Two calls were made on a bigint counter and the caller still owns the
\* last value returned.
C11_Witness ==
  /\ uq_last # NoCall
  /\ uq_last.prior # NoInt
  /\ uq_last.ret.big
  /\ uq_last.ret \in uq_held
  /\ ints[uq_last.ret.val] = 0
  /\ ints[unique.val] = 0

RECURSIVE Flat(_)
RECURSIVE FlatAll(_)

\* The resumption closures a function value is composed of, in the order
\* they are applied in.
Flat(f) ==
  IF f.conts # <<>> THEN FlatAll(f.conts)
  ELSE IF f.frame = 0 THEN <<>>
  ELSE <<f.frame>>

FlatAll(fs) == IF fs = <<>> THEN <<>> ELSE Flat(Head(fs)) \o FlatAll(Tail(fs))

\* Times i occurs in the sequence s.
Count(s, i) == Cardinality({k \in 1..Len(s) : s[k] = i})

\* Where the frame with the target marker is on the call chain.
TargetAt == CHOOSE j \in 1..Len(stack) : stack[j].marker = ytarget

RECURSIVE Resume(_, _)

\* Resuming the frames ids one after another with x, the first one first.
Resume(ids, x) ==
  IF ids = <<>> THEN x ELSE Resume(Tail(ids), frame_resume(Head(ids), x))

\* The frames between the operation and the handler that invoked the
\* clause, in the order they unwound in (the innermost one first).
Unwound == [k \in 1..ydepth |-> clause_frame + ydepth + 1 - k]

\* The same frames, the one that unwound last first.
UnwoundLastFirst == [k \in 1..ydepth |-> clause_frame + k]

\* C13, as stated: the continuation handed to the clause applies the
\* closure of the frame that unwound last first, and the closure of the
\* frame that unwound first last.
C13_Original ==
  yphase = "resumed" => result = Resume(UnwoundLastFirst, yx)

\* C13, amended: the continuation handed to the clause is fN o ... o f1: it
\* applies the closure of the frame that unwound first (f1) to the
\* resumption value first, and the closure of the frame that unwound last
\* (fN) last.
C13_CompositionOrder ==
  yphase = "resumed" =>
    /\ Flat(kont) = Unwound
    /\ result = Resume(Unwound, yx)

\* A continuation of three frames has been resumed.
C13_Witness ==
  /\ yphase = "resumed"
  /\ ydepth = 3
  /\ yx = 1
  /\ result = Resume(Unwound, 1)
  /\ result # Resume(UnwoundLastFirst, 1)

\* C14: with 10 frames between the operation and its handler the array
\* fills exactly once while the frames unwind, so the pending continuations
\* are composed exactly once, and the continuation the clause gets, applied
\* to a value, returns what resuming the 10 frames one after another with
\* that value returns.
C14_DeepUnwind ==
  ykind = "normal" /\ ydepth = 10 =>
    /\ ncompose <= 1
    /\ yphase \in {"handled", "resumed"} =>
         /\ ncompose = 1
         /\ Len(appended) = 10
         /\ yield.conts_count = 4
    /\ yphase = "resumed" =>
         result = Resume([k \in 1..10 |-> clause_frame + 11 - k], yx)

\* The clause of an operation 10 frames beneath its handler has resumed.
C14_Witness ==
  /\ ykind = "normal"
  /\ ydepth = 10
  /\ yphase = "resumed"
  /\ ncompose = 1
  /\ yx = 1

\* What holds in every state of an unwind.
YieldSafe ==
  /\ ctx_yielding = YIELD_NONE <=> ~ yielding(ctx_yielding)
  /\ \A i \in 1..MaxDepth + 2 : effects[i] <= 1
  /\ \A k \in 1..Len(appended) :
       /\ effects[appended[k]] = 0
       /\ Count(appended, appended[k]) = 1
  /\ ykind # "none" =>
       /\ Len(stack) - TargetAt = ydepth - Len(appended)
       /\ \A i \in 1..Len(stack) : effects[stack[i].id] = 0
  /\ clause_calls <= 1
  /\ ykind = "final" => clause_calls = 0
  /\ yielding(ctx_yielding) => yphase = "unwinding" /\ clause_calls = 0
  /\ clause_calls = 1 =>
       /\ ~ yielding(ctx_yielding)
       /\ Len(appended) = ydepth
       /\ stack[Len(stack)].marker = ytarget
       /\ stack[Len(stack)].id = clause_frame

\* C15: after a normal yield to the marker of an installed handler every
\* frame between returns at its check after the call, appending its
\* resumption closure once and running none of its side effects; the frame
\* with the marker resets the mode and invokes the clause, once, in the
\* end; yielding is false while the mode is none; and a final yield
\* invokes no clause and ends at the root handler.
C15_YieldPropagation ==
  /\ [] YieldSafe
  /\ (ctx_yielding = YIELD_NORMAL) ~>
       (ctx_yielding = YIELD_NONE /\ clause_calls = 1)
  /\ (ctx_yielding = YIELD_FINAL) ~>
       (ctx_yielding = YIELD_NONE /\ clause_calls = 0 /\ Len(stack) = 1)

\* A handler four frames above the operation has invoked the clause.
C15_Witness ==
  /\ yphase = "handled"
  /\ ydepth = 4
  /\ clause_calls = 1
  /\ Len(appended) = 4
  /\ ctx_yielding = YIELD_NONE

\* The last operation was block_realloc of a block that was not unique.
ReallocShared ==
  /\ last.op = "block_realloc"
  /\ ~ block_is_unique(last.pre)

\* C16, as stated: block_realloc of a block whose count is not 0 aborts and
\* never resizes or moves the block.
C16_Original ==
  ReallocShared =>
    /\ aborted
    /\ heap[last.b] = last.pre

\* C16, amended: block_realloc asserts that the block is unique. In a build
\* that checks internal assertions a block whose count is not 0 stops the
\* process and its storage is neither resized nor moved; in a build that
\* does not, the call is unchecked and the storage is reallocated like that
\* of a unique block. A unique block never aborts and keeps its contents.
C16_ReallocAsserts ==
  last.op = "block_realloc" =>
    /\ ReallocShared /\ asserts =>
         /\ aborted
         /\ last.ret = NoAddr
         /\ heap[last.b] = last.pre
         /\ Used(heap) = last.used
    /\ ~ ReallocShared \/ ~ asserts =>
         /\ ~ aborted
         /\ last.ret # NoAddr
         /\ heap[last.ret] = last.pre
         /\ last.ret # last.b => heap[last.b] = FreeBlock
         /\ Used(heap) = last.used

\* A checked build has stopped at the reallocation of a shared block.
C16_Witness ==
  /\ ReallocShared
  /\ asserts
  /\ aborted
  /\ last.pre.header.refcount = U32Of(1)

\* C17: for every vector v, unbox_vector_t(box_vector_t(v)) is v, no
\* assertion fails, and no refcount (nor anything else of the block) has
\* changed.
C17_BoxVectorRoundTrip ==
  vlast.op = "box_unbox" =>
    /\ ~ aborted
    /\ vlast.box = box_ptr(vlast.ret)
    /\ vlast.unboxed = vlast.ret
    /\ vheap[vlast.ret] = vlast.pre

\* C18: for every length >= 1 vector_alloc returns a block whose
\* block_scan_fsize is 1 + length and whose vector_len is length, a small
\* vector (TAG_VECTOR_SMALL) without the sentinel 255 in its header and a
\* large one (TAG_VECTOR) with it; vector_alloc(0) allocates nothing and
\* returns vector_empty with its count one higher.
C18_VectorAlloc ==
  vlast.op = "vector_alloc" =>
    IF vlast.length = 0
    THEN /\ vlast.ret = vector_empty
         /\ vheap[1] = vlast.pre1
         /\ EmptyCount = U32Inc(vlast.pre.header.refcount)
    ELSE /\ ~ aborted
         /\ vlast.ret = 1
         /\ vector_scan_fsize(vheap, vwords, 1) = 1 + vlast.length
         /\ vector_len(vheap, vwords, 1) = vlast.length
         /\ block_tag(vheap[1]) \in {TAG_VECTOR_SMALL, TAG_VECTOR}
         /\ vheap[1].header.scan_fsize = SCAN_FSIZE_MAX
              <=> block_tag(vheap[1]) = TAG_VECTOR
         /\ block_is_unique(vheap[1])

\* C19: dup_block takes the inline path only when the stored count read as
\* int32_t is not negative, and then stores a count in 1..2^31, so the block
\* is not unique afterwards; a count that reads negative goes to the slow
\* path, which leaves it negative (a sticky one as it is): no dup_block
\* makes a block unique or wraps its count to 0.
C19_InlineDup ==
  last.op = "dup_block" =>
    LET pre == last.pre.header.refcount
        post == heap[last.b].header.refcount
    IN  /\ ~ block_is_unique(heap[last.b])
        /\ post # U32Zero
        /\ ToInt32(pre) >= 0 =>
             /\ post = U32Inc(pre)
             /\ ToInt32(post) >= 1 \/ post = RC_SHARED
        /\ ToInt32(pre) < 0 =>
             /\ ToInt32(post) < 0
             /\ rc_is_sticky(pre) => post = pre
             /\ post \in {pre, U32Inc(pre)}

\* The inline path has taken the largest count that reads non-negative to
\* 2^31.
C19_Witness ==
  /\ last.op = "dup_block"
  /\ last.pre.header.refcount = U32(32767, 65535)
  /\ heap[last.b].header.refcount = RC_SHARED

\* C20: over any sequence of ref_alloc, ref_get, ref_set and ref_swap every
\* live block carries one count per owner (the mutator's references and the
\* cells that store it), so a value stored in a cell is live and has an
\* owner accounted to the cell; ref_get adds one to the count of the stored
\* value and leaves the cell as it is; ref_set drops the value that was
\* stored once and stores the new one without dup'ing it; ref_swap stores
\* the new value and changes no count.
C20_RefOwnership ==
  /\ \A b \in Addr \ {orphan_null} :
       /\ heap[b].st = "live" =>
            /\ Owners(b) >= 1
            /\ ToInt32(heap[b].header.refcount) = Owners(b) - 1
       /\ heap[b].st = "free" => Owners(b) = 0
  /\ \A c \in Addr \ {orphan_null} :
       (heap[c].st = "live" /\ block_tag(heap[c]) = TAG_REF
          /\ is_ptr(heap[c].field)) =>
         /\ heap[unbox_ptr(heap[c].field)].st = "live"
         /\ Incoming(unbox_ptr(heap[c].field)) >= 1
  /\ last.op = "ref_get" =>
       /\ heap[last.b].field = last.pre.field
       /\ last.ret = last.f
       /\ last.f # last.b => heap[last.b] = last.pre
       /\ last.f # NoAddr =>
            heap[last.f].header.refcount = U32Inc(last.fpre.header.refcount)
       /\ Used(heap) = last.used
  /\ last.op = "ref_set" =>
       /\ heap[last.b].field = BoxOf(last.ret)
       /\ heap[last.b].st = "live"
       /\ last.f = NoAddr => heap[last.b].header = last.pre.header
       /\ (last.f # NoAddr /\ last.fpre.header.refcount = U32Zero) =>
            heap[last.f].st = "free"
       /\ (last.f # NoAddr /\ last.fpre.header.refcount # U32Zero) =>
            heap[last.f].header.refcount = U32Dec(last.fpre.header.refcount)
  /\ last.op = "ref_swap" =>
       /\ heap[last.b].field = BoxOf(last.ret)
       /\ heap[last.b].header = last.pre.header
       /\ last.f # NoAddr /\ last.f # last.b => heap[last.f] = last.fpre
       /\ Used(heap) = last.used

\* ref_set has replaced a value whose only owner was the cell, which was
\* freed, by a pointer.
C20_Witness ==
  /\ last.op = "ref_set"
  /\ last.f # NoAddr
  /\ last.ret # NoAddr
  /\ last.fpre.header.refcount = U32Zero
  /\ heap[last.f].st = "free"
  /\ heap[last.b].field = box_ptr(last.ret)


\* The fields of a context_t.
ContextFields ==
  {"yielding", "heap", "evv", "yield", "marker_unique", "delayed_free",
   "unique", "thread_id", "log", "out"}

\* Contexts c and d agree on every field but f.
SameBut(c, d, f) == \A g \in ContextFields \ {f} : c[g] = d[g]

\* C21: marker_unique changes only the marker_unique field, and gen_unique
\* only the unique field, of the context of the calling thread: the yield
\* mode, the yield state (marker, clause, conts, conts_count), the evidence
\* vector, the deferred-free list and every other field keep their values,
\* and the context of every other thread is left as it was.
C21_ContextIsolation ==
  cx_last.op \in {"marker_unique", "gen_unique"} =>
    /\ \A o \in 1..NThreads \ {cx_last.t} : contexts[o] = cx_last.pre[o]
    /\ SameBut(contexts[cx_last.t], cx_last.pre[cx_last.t],
               IF cx_last.op = "gen_unique" THEN "unique" ELSE "marker_unique")

\* A thread whose context is yielding with a pending continuation has
\* called gen_unique, which advanced its counter, after another thread has
\* called marker_unique on its own context.
C21_Witness ==
  /\ cx_last.op = "gen_unique"
  /\ contexts[cx_last.t].unique # cx_last.pre[cx_last.t].unique
  /\ contexts[cx_last.t].yielding = YIELD_NORMAL
  /\ contexts[cx_last.t].yield.conts_count > 0
  /\ \E o \in 1..NThreads \ {cx_last.t} : contexts[o].marker_unique = 1

====
